---- MODULE Spec2Model ----
(***************************************************************************)
(* PingAnalyzator (src/main.py): the parser read_ping_data, the analysis   *)
(* analyze_ping_data (hourly statistics, the disconnection detector and    *)
(* the densified hourly disconnection series) and the part of main that    *)
(* drives them.                                                            *)
(*                                                                         *)
(* Timestamps are whole seconds counted from the start of the hour of the  *)
(* first possible log line (datetime has second resolution here, the       *)
(* format '%Y/%m/%d %H:%M:%S' carries no fraction).  Python's None is      *)
(* modelled by the value None below, which no parsed value can take.       *)
(***************************************************************************)
EXTENDS Integers, Sequences, FiniteSets, TLC

\* ---------------------------------------------------------------- bounds
MaxLines == 3          \* lines of the log file after the header line
MaxTick == 2           \* timestamps are k * k * TickSeconds for k in 0 .. MaxTick
TickSeconds == 1800    \* scale of the sampled timestamps, in seconds
MaxThreshold == 2      \* the numbers 0 .. MaxThreshold can be entered (3 is the default)

None == -1

\* The sampled timestamps 0, 1800, 7200 give two instants in one hour, an hour
\* without any instant (a gap) and an hour after the gap.
Timestamps == {k * k * TickSeconds : k \in 0..MaxTick}

\* A line of the file after the header, by what the parser can see of it:
\*   "noise"   no 'YYYY/MM/DD HH:MM:SS' prefix
\*   "bad"     the prefix matches \d{4}/\d{2}/... but strptime raises (month 13)
\*   "reply"   valid prefix, contains "Reply from" and 'time=<ms>ms'
\*   "reply_nolatency"  valid prefix, contains "Reply from", no 'time=<digits>ms'
\*   "timeout" valid prefix, no "Reply from"
SampleLatency == 12

Lines ==
    {[kind |-> "noise", ts |-> None, ms |-> None],
     [kind |-> "bad", ts |-> None, ms |-> None]}
    \cup {[kind |-> "reply", ts |-> t, ms |-> SampleLatency] : t \in Timestamps}
    \cup {[kind |-> "reply_nolatency", ts |-> t, ms |-> None] : t \in Timestamps}
    \cup {[kind |-> "timeout", ts |-> t, ms |-> None] : t \in Timestamps}

Files ==
    UNION {[1..n -> Lines] : n \in 0..MaxLines}

VARIABLES
    first_line_has_host,     \* the header line matches 'Target Host=<IPv4>'
    file,                    \* the lines after the header
    custom_threshold,        \* what was entered at the threshold prompt
    disconnect_threshold,    \* main's disconnect_threshold
    pc,                      \* position in main / analyze_ping_data
    host_address,
    ping_data,               \* list of parsed events
    parse_warnings,          \* positions of the lines reported by 'Error parsing line'
    hourly_stats,            \* hour -> [total_pings, successful_pings, packet_loss_count]
    total_pings,
    failed_pings,
    overall_packet_loss_rate, \* the exact quotient num / den
    disconnections,          \* list of closed disconnections
    failure_count,
    current_disconnection,   \* <<>> (None) or <<[start_time, count]>>
    i,                       \* iterrows position (0-based label of the next row)
    hourly_disconnection_df, \* [index, columns, rows]
    stdout,                  \* what sys.stdout refers to: "terminal" or "logger"
    logger_created,          \* 'logger' in locals()
    log_open,                \* the log file of the Logger is open
    called,                  \* the analysis and report functions main has called
    outcome                  \* how main ended

inputVars == <<first_line_has_host, file, custom_threshold, disconnect_threshold>>
parseVars == <<host_address, ping_data, parse_warnings>>
statVars == <<hourly_stats, total_pings, failed_pings, overall_packet_loss_rate>>
detectorVars == <<disconnections, failure_count, current_disconnection, i>>
logVars == <<stdout, logger_created, log_open>>

vars == <<inputVars, parseVars, statVars, detectorVars, logVars, pc,
          hourly_disconnection_df, called, outcome>>

\* ------------------------------------------------------------ the parser

\* timestamp.replace(minute=0, second=0)
FloorHour(ts) == ts - (ts % 3600)

\* re.match of the timestamp prefix at the start of the line
date_time_match(line) == line.kind # "noise"

\* datetime.strptime raises on an impossible date
strptime_raises(line) == line.kind = "bad"

\* a variant of ParseEvent: a reply counts as a success only with a latency
ParseEventLatencyRequired(line) ==
    [timestamp |-> line.ts,
     hour |-> line.ts - (line.ts % 3600),
     result |-> IF line.kind = "reply" THEN "success" ELSE "failure",
     response_time |-> IF line.kind = "reply" THEN line.ms ELSE -1]

\* the body of the try block: the event a qualifying line becomes
ParseEvent(line) ==
    [timestamp |-> line.ts,
     hour |-> FloorHour(line.ts),
     result |-> IF line.kind \in {"reply", "reply_nolatency"}
                THEN "success" ELSE "failure",
     response_time |-> IF line.kind = "reply" THEN line.ms ELSE None]

\* one iteration of 'for line in file': what it appends to ping_data
ParseLine(line) ==
    IF ~date_time_match(line) THEN <<>>
    ELSE IF strptime_raises(line) THEN <<>>
    ELSE <<ParseEvent(line)>>

\* a variant of ParseLines: the first line that raises ends the parse
RECURSIVE ParseLinesAbort(_)
ParseLinesAbort(ls) ==
    IF ls = <<>> THEN <<>>
    ELSE IF Head(ls).kind = "bad" THEN <<>>
    ELSE ParseLine(Head(ls)) \o ParseLinesAbort(Tail(ls))

RECURSIVE ParseLines(_)
ParseLines(ls) ==
    IF ls = <<>> THEN <<>>
    ELSE ParseLine(Head(ls)) \o ParseLines(Tail(ls))

\* the positions (1-based, after the header) of the lines whose exception line
\* 46 reports, first being the position of the first line of ls
RECURSIVE WarningsFrom(_, _)
WarningsFrom(ls, first) ==
    IF ls = <<>> THEN <<>>
    ELSE (IF date_time_match(Head(ls)) /\ strptime_raises(Head(ls))
          THEN <<first>> ELSE <<>>)
         \o WarningsFrom(Tail(ls), first + 1)

ParseWarnings(ls) == WarningsFrom(ls, 1)

HostNone == "None"

ExtractHost(hasHost) == IF hasHost THEN "10.0.0.1" ELSE HostNone


\* ---------------------------------------------- the hourly statistics

Range(s) == {s[k] : k \in DOMAIN s}

\* the keys of df.groupby('hour')
GroupKeys(events) == {events[k].hour : k \in DOMAIN events}

\* a variant of PacketLossCount: the operands exchanged
PacketLossCountSwapped(total, successful) == successful - total

\* hourly_stats['total_pings'] - hourly_stats['successful_pings']
PacketLossCount(total, successful) == total - successful

\* df.groupby('hour').agg(total_pings=count, successful_pings=(== 'success').sum())
\* followed by the packet_loss_count column
HourlyStats(events) ==
    [h \in GroupKeys(events) |->
        LET total == Cardinality({k \in DOMAIN events : events[k].hour = h})
            successful == Cardinality({k \in DOMAIN events :
                              events[k].hour = h /\ events[k].result = "success"})
        IN [total_pings |-> total,
            successful_pings |-> successful,
            packet_loss_count |-> PacketLossCount(total, successful)]]

\* len(df[df['result'] == 'success'])
SuccessfulPings(events) ==
    Cardinality({k \in DOMAIN events : events[k].result = "success"})

\* --------------------------------------------- the disconnection detector

NoDisconnection == <<>>

\* a variant of StartIdx: the position of the current row, the T-th failure
StartIdxCurrent(idx, threshold) == idx

\* start_idx = i - disconnect_threshold + 1 (a 0-based position of df.iloc)
StartIdx(idx, threshold) == idx - threshold + 1

\* df.iloc[pos]['timestamp'], pos a 0-based position
IlocTimestamp(events, pos) == events[pos + 1].timestamp

\* failure_count == disconnect_threshold
ThresholdReached(count, threshold) == count = threshold

\* a variant of OnFailure: the open run's count is not advanced past T
OnFailureNoContinue(cur, count, idx, threshold, events) ==
    IF count = threshold
    THEN <<[start_time |-> events[idx - threshold + 2].timestamp,
            count |-> threshold]>>
    ELSE cur

\* a variant of OnFailure: the run is opened by the first failure of a streak
OnFailureOpensEarly(cur, count, idx, threshold, events) ==
    IF count = 1
    THEN <<[start_time |-> events[idx + 1].timestamp, count |-> 1]>>
    ELSE IF cur # <<>>
    THEN <<[start_time |-> cur[1].start_time, count |-> cur[1].count + 1]>>
    ELSE cur

\* a variant of OnFailure: the run is opened with count 1 instead of T
OnFailureCountFromOne(cur, count, idx, threshold, events) ==
    IF count = threshold
    THEN <<[start_time |-> events[idx - threshold + 2].timestamp, count |-> 1]>>
    ELSE IF count > threshold /\ cur # <<>>
    THEN <<[start_time |-> cur[1].start_time, count |-> cur[1].count + 1]>>
    ELSE cur

\* the new value of current_disconnection on a failure row, count being the
\* failure counter after its increment
OnFailure(cur, count, idx, threshold, events) ==
    IF ThresholdReached(count, threshold)
    THEN <<[start_time |-> IlocTimestamp(events, StartIdx(idx, threshold)),
            count |-> threshold]>>
    ELSE IF count > threshold /\ cur # NoDisconnection
    THEN <<[start_time |-> cur[1].start_time, count |-> cur[1].count + 1]>>
    ELSE cur

\* a variant of Duration: the operands exchanged
DurationSwapped(end_time, start_time) == start_time - end_time

\* (end_time - start_time).total_seconds()
Duration(end_time, start_time) == end_time - start_time

\* a variant of CloseDisconnection: the closing event counted into the run
CloseDisconnectionOverCount(cur, end_time) ==
    [start_time |-> cur[1].start_time,
     count |-> cur[1].count + 1,
     end_time |-> end_time,
     duration |-> end_time - cur[1].start_time]

\* the open run with its end_time and duration filled in
CloseDisconnection(cur, end_time) ==
    [start_time |-> cur[1].start_time,
     count |-> cur[1].count,
     end_time |-> end_time,
     duration |-> Duration(end_time, cur[1].start_time)]

\* a variant of Emit: insert(0, ..) instead of append
EmitFront(discs, d) == <<d>> \o discs

\* disconnections.append(current_disconnection)
Emit(discs, d) == Append(discs, d)

\* a variant of ResetCount: the counter survives a success
ResetCountKeep(count) == count

\* failure_count = 0 at the end of the success branch
ResetCount(count) == 0

\* a variant of CloseAtEndOfStream: the open run is forgotten
CloseAtEndOfStreamDropped(discs, cur, events) == discs

\* 'if current_disconnection is not None' after the loop: the run still open at
\* the end of the stream is closed at df.iloc[-1]['timestamp']
CloseAtEndOfStream(discs, cur, events) ==
    IF cur # NoDisconnection
    THEN Emit(discs, CloseDisconnection(cur, events[Len(events)].timestamp))
    ELSE discs

\* ------------------------------------ the hourly disconnection series

\* disc['start_time'].replace(minute=0, second=0, microsecond=0)
StartHour(d) == FloorHour(d.start_time)

\* the keys of hourly_disconnection_counts, in insertion order
RECURSIVE CountKeys(_)
CountKeys(discs) ==
    IF discs = <<>> THEN <<>>
    ELSE LET before == CountKeys(SubSeq(discs, 1, Len(discs) - 1))
             h == StartHour(discs[Len(discs)])
         IN IF h \in Range(before) THEN before ELSE Append(before, h)

\* hourly_disconnection_counts[hour]
CountOf(discs, h) ==
    Cardinality({k \in DOMAIN discs : StartHour(discs[k]) = h})

\* pd.DataFrame([{'hour': .., 'count': ..} ...]) and, when it is not empty,
\* set_index('hour').  A frame is its index, its columns and one row per index
\* entry; a frame built from the empty list has no rows and no columns.
CountsFrame(discs) ==
    LET keys == CountKeys(discs)
    IN IF keys = <<>>
       THEN [index |-> <<>>, columns |-> {}, rows |-> <<>>]
       ELSE [index |-> keys,
             columns |-> {"count"},
             rows |-> [k \in DOMAIN keys |-> [count |-> CountOf(discs, keys[k])]]]

\* a variant of DateRange: the end hour is left out
DateRangeHalfOpen(start, end) ==
    [k \in 1..((end - start) \div 3600) |-> start + (k - 1) * 3600]

\* pd.date_range(start, end, freq='H')
DateRange(start, end) ==
    [k \in 1..((end - start) \div 3600 + 1) |-> start + (k - 1) * 3600]

Min(S) == CHOOSE x \in S : \A y \in S : x <= y
Max(S) == CHOOSE x \in S : \A y \in S : x >= y

\* DataFrame.reindex(new_index, fill_value=fill): the rows of the labels the
\* frame has, a row of fill values (over the frame's own columns) elsewhere
Reindex(frame, new_index, fill) ==
    [index |-> new_index,
     columns |-> frame.columns,
     rows |-> [k \in DOMAIN new_index |->
                 IF \E j \in DOMAIN frame.index : frame.index[j] = new_index[k]
                 THEN frame.rows[CHOOSE j \in DOMAIN frame.index :
                                     frame.index[j] = new_index[k]]
                 ELSE [c \in frame.columns |-> fill]]]

\* lines 108-131 for a non-empty df
HourlyDisconnectionDf(discs, events) ==
    Reindex(CountsFrame(discs),
            DateRange(Min(GroupKeys(events)), Max(GroupKeys(events))),
            0)

\* ------------------------------------------------------------- the run

EmptyFrame == [index |-> <<>>, columns |-> {}, rows |-> <<>>]

DefaultThreshold == 3

\* What can be typed at the threshold prompt, by what lines 321-322 see of it:
\*   "empty"        '' or blanks only: strip() is empty
\*   "text"         not all digits: 'abc', '-1', '2.5', ' 3 '
\*   "digits"       decimal digits, value their number: '0', '1', '2', ...
\*   "superscript"  digit characters int() rejects, such as a superscript two:
\*                  isdigit() is true and int() raises ValueError
ThresholdInputs ==
    {[kind |-> "empty", value |-> None],
     [kind |-> "text", value |-> None],
     [kind |-> "superscript", value |-> None]}
    \cup {[kind |-> "digits", value |-> n] : n \in 0..MaxThreshold}

NotEntered == [kind |-> "none", value |-> None]

\* custom_threshold.strip() is not empty
StripNonEmpty(inp) == inp.kind # "empty"

\* custom_threshold.isdigit()
IsDigit(inp) == inp.kind \in {"digits", "superscript"}

\* int(custom_threshold) raises ValueError
IntRaises(inp) == inp.kind = "superscript"

\* lines 321-322: the threshold after the prompt
NewThreshold(threshold, inp) ==
    IF StripNonEmpty(inp) /\ IsDigit(inp) THEN inp.value ELSE threshold

\* a variant of HandlerStdout: the handler does not reset sys.stdout
HandlerStdoutKept(created, out) == out

\* lines 370-371: sys.stdout after main's exception handler
HandlerStdout(created, out) == IF created THEN "terminal" ELSE out

\* a variant of AfterRead: the empty-data test comes first
AfterReadEmptyFirst(host, data) ==
    IF data = <<>> THEN "abort_empty"
    ELSE IF host = "None" THEN "abort_host"
    ELSE "analyze"

\* lines 327 and 333: where main goes after read_ping_data returned
AfterRead(host, data) ==
    IF host = HostNone THEN "abort_host"
    ELSE IF data = <<>> THEN "abort_empty"
    ELSE "analyze"

\* (failed_pings / total_pings) * 100 if total_pings > 0 else 0, as an exact
\* quotient
LossRate(failed, total) ==
    IF total > 0 THEN [num |-> failed * 100, den |-> total]
    ELSE [num |-> 0, den |-> 1]

NoRate == [num |-> 0, den |-> 0]

\* main lines 311-312: before the try block
Init ==
    /\ first_line_has_host = FALSE
    /\ file = <<>>
    /\ custom_threshold = NotEntered
    /\ disconnect_threshold = DefaultThreshold
    /\ pc = "start"
    /\ host_address = HostNone
    /\ ping_data = <<>>
    /\ parse_warnings = <<>>
    /\ hourly_stats = <<>>
    /\ total_pings = 0
    /\ failed_pings = 0
    /\ overall_packet_loss_rate = NoRate
    /\ disconnections = <<>>
    /\ failure_count = 0
    /\ current_disconnection = NoDisconnection
    /\ i = 0
    /\ hourly_disconnection_df = EmptyFrame
    /\ stdout = "terminal"
    /\ logger_created = FALSE
    /\ log_open = FALSE
    /\ called = {}
    /\ outcome = "running"

\* main line 317 and save_output_to_log: the log file is opened and sys.stdout
\* replaced by the Logger
SaveOutputToLog ==
    /\ pc = "start"
    /\ log_open' = TRUE
    /\ stdout' = "logger"
    /\ logger_created' = TRUE
    /\ pc' = "prompt"
    /\ UNCHANGED <<inputVars, parseVars, statVars, detectorVars,
                   hourly_disconnection_df, called, outcome>>

\* save_output_to_log line 220: open() of the log file raises (no permission);
\* sys.stdout is not yet replaced and main's handler finds no 'logger'
SaveOutputToLogRaises ==
    /\ pc = "start"
    /\ stdout' = HandlerStdout(logger_created, stdout)
    /\ outcome' = "exception"
    /\ pc' = "done"
    /\ UNCHANGED <<inputVars, parseVars, statVars, detectorVars,
                   hourly_disconnection_df, called, logger_created, log_open>>

\* main lines 320-322: the threshold prompt
PromptThreshold ==
    /\ pc = "prompt"
    /\ \E inp \in ThresholdInputs :
           /\ ~(StripNonEmpty(inp) /\ IsDigit(inp) /\ IntRaises(inp))
           /\ custom_threshold' = inp
           /\ disconnect_threshold' = NewThreshold(disconnect_threshold, inp)
    /\ pc' = "read"
    /\ UNCHANGED <<first_line_has_host, file, parseVars, statVars, detectorVars,
                   logVars, hourly_disconnection_df, called, outcome>>

\* main line 322 raising ValueError, then the handler of lines 367-371
PromptThresholdRaises ==
    /\ pc = "prompt"
    /\ \E inp \in ThresholdInputs :
           /\ StripNonEmpty(inp) /\ IsDigit(inp) /\ IntRaises(inp)
           /\ custom_threshold' = inp
    /\ stdout' = HandlerStdout(logger_created, stdout)
    /\ outcome' = "exception"
    /\ pc' = "done"
    /\ UNCHANGED <<first_line_has_host, file, disconnect_threshold, parseVars,
                   statVars, detectorVars, hourly_disconnection_df, called,
                   logger_created, log_open>>

\* main line 325: host_address, ping_data = read_ping_data(file_path), for any
\* file that can be read, and the two tests of lines 327 and 333
ReadPingData ==
    /\ pc = "read"
    /\ \E hasHost \in BOOLEAN, f \in Files :
           /\ first_line_has_host' = hasHost
           /\ file' = f
           /\ host_address' = ExtractHost(hasHost)
           /\ ping_data' = ParseLines(f)
           /\ parse_warnings' = ParseWarnings(f)
    /\ pc' = AfterRead(host_address', ping_data')
    /\ UNCHANGED <<custom_threshold, disconnect_threshold, statVars, detectorVars,
                   logVars, hourly_disconnection_df, called, outcome>>

\* read_ping_data line 13: open() raises (no such file), then the handler of
\* lines 367-371
ReadPingDataRaises ==
    /\ pc = "read"
    /\ stdout' = HandlerStdout(logger_created, stdout)
    /\ outcome' = "exception"
    /\ pc' = "done"
    /\ UNCHANGED <<inputVars, parseVars, statVars, detectorVars,
                   hourly_disconnection_df, called, logger_created, log_open>>

\* main lines 327-331: 'if not host_address'
AbortMissingHost ==
    /\ pc = "abort_host"
    /\ outcome' = "missing_host"
    /\ log_open' = FALSE
    /\ stdout' = "terminal"
    /\ pc' = "done"
    /\ UNCHANGED <<inputVars, parseVars, statVars, detectorVars,
                   hourly_disconnection_df, called, logger_created>>

\* main lines 333-337: 'if not ping_data'
AbortEmptyData ==
    /\ pc = "abort_empty"
    /\ outcome' = "empty_data"
    /\ log_open' = FALSE
    /\ stdout' = "terminal"
    /\ pc' = "done"
    /\ UNCHANGED <<inputVars, parseVars, statVars, detectorVars,
                   hourly_disconnection_df, called, logger_created>>

\* analyze_ping_data lines 53-78 for a non-empty list: the totals, the overall
\* rate, the hourly statistics and the detector's initial state
AnalyzeStart ==
    /\ pc = "analyze"
    /\ ping_data # <<>>
    /\ called' = called \cup {"analyze_ping_data"}
    /\ total_pings' = Len(ping_data)
    /\ failed_pings' = Len(ping_data) - SuccessfulPings(ping_data)
    /\ overall_packet_loss_rate' = LossRate(failed_pings', total_pings')
    /\ hourly_stats' = HourlyStats(ping_data)
    /\ disconnections' = <<>>
    /\ failure_count' = 0
    /\ current_disconnection' = NoDisconnection
    /\ i' = 0
    /\ pc' = "loop"
    /\ UNCHANGED <<inputVars, parseVars, logVars, hourly_disconnection_df, outcome>>

\* analyze_ping_data lines 53-62 for the empty list: pd.DataFrame([]) has no
\* columns, lines 56-61 pass (df.empty, total_pings = 0) and df['result'] on
\* line 62 raises KeyError before line 64 is reached
AnalyzeRaisesOnEmpty ==
    /\ pc = "analyze"
    /\ ping_data = <<>>
    /\ called' = called \cup {"analyze_ping_data"}
    /\ total_pings' = 0
    /\ outcome' = "exception"
    /\ pc' = "raised"
    /\ UNCHANGED <<inputVars, parseVars, hourly_stats, failed_pings,
                   overall_packet_loss_rate, detectorVars, logVars,
                   hourly_disconnection_df>>

\* lines 80-92: one iteration of the loop on a failure row
LoopFailure ==
    /\ pc = "loop"
    /\ i < Len(ping_data)
    /\ ping_data[i + 1].result = "failure"
    /\ failure_count' = failure_count + 1
    /\ current_disconnection' =
           OnFailure(current_disconnection, failure_count + 1, i,
                     disconnect_threshold, ping_data)
    /\ i' = i + 1
    /\ UNCHANGED <<inputVars, parseVars, statVars, logVars, pc, disconnections,
                   hourly_disconnection_df, called, outcome>>

\* lines 93-100: one iteration of the loop on a success row
LoopSuccess ==
    /\ pc = "loop"
    /\ i < Len(ping_data)
    /\ ping_data[i + 1].result # "failure"
    /\ disconnections' =
           IF current_disconnection # NoDisconnection
           THEN Emit(disconnections,
                     CloseDisconnection(current_disconnection,
                                        ping_data[i + 1].timestamp))
           ELSE disconnections
    /\ current_disconnection' = NoDisconnection
    /\ failure_count' = ResetCount(failure_count)
    /\ i' = i + 1
    /\ UNCHANGED <<inputVars, parseVars, statVars, logVars, pc,
                   hourly_disconnection_df, called, outcome>>

\* lines 102-133: the run open at the end of the stream, the hourly
\* disconnection series, return
AnalyzeFinish ==
    /\ pc = "loop"
    /\ i = Len(ping_data)
    /\ disconnections' =
           CloseAtEndOfStream(disconnections, current_disconnection, ping_data)
    /\ hourly_disconnection_df' = HourlyDisconnectionDf(disconnections', ping_data)
    /\ pc' = "report"
    /\ UNCHANGED <<inputVars, parseVars, statVars, logVars, failure_count,
                   current_disconnection, i, called, outcome>>

\* plot_hourly_disconnections line 284: hourly_disconnection_df['count']
HasCountColumn(frame) == "count" \in frame.columns

\* the functions main lines 344-358 call (hourly_stats is not empty here)
ReportCalls(discs) ==
    {"calculate_disconnection_stats", "print_analysis_results",
     "plot_packet_loss_rate", "plot_hourly_disconnections"}
    \cup (IF discs # <<>> THEN {"plot_disconnection_duration_vs_count"} ELSE {})

\* main lines 344-365: statistics, report and charts all succeed, the log is
\* closed and sys.stdout restored
ReportAndPlot ==
    /\ pc = "report"
    /\ HasCountColumn(hourly_disconnection_df)
    /\ called' = called \cup ReportCalls(disconnections)
    /\ log_open' = FALSE
    /\ stdout' = "terminal"
    /\ outcome' = "completed"
    /\ pc' = "done"
    /\ UNCHANGED <<inputVars, parseVars, statVars, detectorVars,
                   hourly_disconnection_df, logger_created>>

\* main lines 344-354 and 367-371: hourly_stats is not empty, so
\* plot_hourly_disconnections runs; the column lookup raises KeyError, which
\* main's 'except Exception' reports before it resets sys.stdout
PlotKeyError ==
    /\ pc = "report"
    /\ ~HasCountColumn(hourly_disconnection_df)
    /\ called' = called \cup {"calculate_disconnection_stats",
                              "print_analysis_results", "plot_packet_loss_rate",
                              "plot_hourly_disconnections"}
    /\ stdout' = HandlerStdout(logger_created, stdout)
    /\ outcome' = "exception"
    /\ pc' = "done"
    /\ UNCHANGED <<inputVars, parseVars, statVars, detectorVars,
                   hourly_disconnection_df, logger_created, log_open>>

Next ==
    \/ SaveOutputToLog
    \/ SaveOutputToLogRaises
    \/ PromptThreshold
    \/ PromptThresholdRaises
    \/ ReadPingData
    \/ ReadPingDataRaises
    \/ AbortMissingHost
    \/ AbortEmptyData
    \/ AnalyzeStart
    \/ LoopFailure
    \/ LoopSuccess
    \/ AnalyzeFinish
    \/ ReportAndPlot
    \/ PlotKeyError

Spec == Init /\ [][Next]_vars

\* analyze_ping_data called on its own, with any list of events the parser can
\* produce (the empty list included) and any threshold
EventLists == {ParseLines(f) : f \in Files}

InitAnalyze ==
    /\ first_line_has_host = TRUE
    /\ file = <<>>
    /\ custom_threshold = NotEntered
    /\ disconnect_threshold \in 0..MaxThreshold
    /\ pc = "analyze"
    /\ host_address = ExtractHost(TRUE)
    /\ ping_data \in EventLists
    /\ parse_warnings = <<>>
    /\ hourly_stats = <<>>
    /\ total_pings = 0
    /\ failed_pings = 0
    /\ overall_packet_loss_rate = NoRate
    /\ disconnections = <<>>
    /\ failure_count = 0
    /\ current_disconnection = NoDisconnection
    /\ i = 0
    /\ hourly_disconnection_df = EmptyFrame
    /\ stdout = "terminal"
    /\ logger_created = FALSE
    /\ log_open = FALSE
    /\ called = {}
    /\ outcome = "running"

NextAnalyze ==
    \/ AnalyzeStart
    \/ AnalyzeRaisesOnEmpty
    \/ LoopFailure
    \/ LoopSuccess
    \/ AnalyzeFinish

SpecAnalyze == InitAnalyze /\ [][NextAnalyze]_vars

\* ------------------------------------------- reference notions of a run

T == disconnect_threshold

\* analyze_ping_data has returned
Analyzed == pc \in {"report", "done"} /\ "analyze_ping_data" \in called

\* the events the detector has processed so far
Processed ==
    IF pc = "loop" THEN SubSeq(ping_data, 1, i)
    ELSE IF Analyzed THEN ping_data
    ELSE <<>>

IsFailure(ev, k) == ev[k].result = "failure"

\* first positions of the maximal runs of consecutive failures of ev
RunStarts(ev) ==
    {a \in DOMAIN ev : IsFailure(ev, a) /\ (a = 1 \/ ~IsFailure(ev, a - 1))}

\* last position of the maximal run that starts at a
RunEnd(ev, a) ==
    Max({b \in a..Len(ev) : \A c \in a..b : IsFailure(ev, c)})

RunLen(ev, a) == RunEnd(ev, a) - a + 1

\* the maximal runs of length >= t
LongRuns(ev, t) == {a \in RunStarts(ev) : RunLen(ev, a) >= t}

\* those of them that a success ends inside ev
ClosedLongRuns(ev, t) == {a \in LongRuns(ev, t) : RunEnd(ev, a) < Len(ev)}

\* the n-th element of a set of positions, in stream order
Nth(S, n) == CHOOSE a \in S : Cardinality({b \in S : b <= a}) = n

Chronological(ev) ==
    \A k \in 1..(Len(ev) - 1) : ev[k].timestamp <= ev[k + 1].timestamp

StrictlyChronological(ev) ==
    \A k \in 1..(Len(ev) - 1) : ev[k].timestamp < ev[k + 1].timestamp

RECURSIVE SumFn(_)
SumFn(f) ==
    IF DOMAIN f = {} THEN 0
    ELSE LET x == CHOOSE x \in DOMAIN f : TRUE
         IN f[x] + SumFn([y \in DOMAIN f \ {x} |-> f[y]])

\* -------------------------------------------------------------- claims

\* C1: for T >= 1 the returned list has exactly one disconnection per maximal
\* run of consecutive failures of length >= T, in stream order, and its count
\* is the full length of that run.
C1_OneDisconnectionPerRun ==
    (Analyzed /\ T >= 1) =>
        /\ Len(disconnections) = Cardinality(LongRuns(ping_data, T))
        /\ \A n \in DOMAIN disconnections :
               disconnections[n].count =
                   RunLen(ping_data, Nth(LongRuns(ping_data, T), n))

\* two runs reach the threshold and both are emitted
C1_Witness ==
    /\ Analyzed
    /\ T >= 1
    /\ Cardinality(LongRuns(ping_data, T)) = 2
    /\ Len(disconnections) = 2

\* C2: for T >= 1 every emitted disconnection has count >= T, and a streak of
\* fewer than T failures ended by a success emits nothing and leaves the
\* failure counter at 0: after each processed event the emitted list holds
\* exactly the runs of length >= T that a success has ended.
C2_RunMinimality ==
    (T >= 1) =>
        /\ \A n \in DOMAIN disconnections : disconnections[n].count >= T
        /\ (pc = "loop" \/ Analyzed) =>
               Len(disconnections) >= Cardinality(ClosedLongRuns(Processed, T))
        /\ (pc = "loop" /\ i >= 1 /\ ~IsFailure(ping_data, i)) =>
               /\ failure_count = 0
               /\ Len(disconnections) = Cardinality(ClosedLongRuns(Processed, T))

\* [F,F,S] with T = 3 has been processed: nothing emitted, counter back at 0
C2_Witness ==
    /\ pc = "loop"
    /\ T = 3
    /\ i = 3
    /\ IsFailure(ping_data, 1) /\ IsFailure(ping_data, 2) /\ ~IsFailure(ping_data, 3)
    /\ disconnections = <<>>
    /\ failure_count = 0

\* C3: every emitted disconnection's start_time is the timestamp of the first
\* failure of its run in the parsed event sequence, also when the parser
\* dropped a malformed line between failures of the run.
C3_StartIsFirstFailure ==
    (Analyzed /\ T >= 1) =>
        \A n \in DOMAIN disconnections :
            /\ n <= Cardinality(LongRuns(ping_data, T))
            /\ disconnections[n].start_time =
                   ping_data[Nth(LongRuns(ping_data, T), n)].timestamp

\* a line the parser dropped lies between the two failures of an emitted run
\* whose first and T-th failures have different timestamps
C3_Witness ==
    /\ Analyzed
    /\ T = 2
    /\ Len(file) = 3
    /\ file[1].kind = "timeout" /\ file[2].kind = "bad" /\ file[3].kind = "timeout"
    /\ file[1].ts # file[3].ts
    /\ Len(disconnections) = 1
    /\ disconnections[1].start_time = file[1].ts

\* C4: a run of >= T failures still open at the end of the stream is emitted
\* exactly once, as the last disconnection, with end_time the timestamp of
\* the last event and count the run's length.
C4_OpenRunAtEndOfStream ==
    (Analyzed /\ T >= 1 /\ IsFailure(ping_data, Len(ping_data))) =>
        LET a == Max(RunStarts(ping_data))
            last == Len(disconnections)
        IN RunLen(ping_data, a) >= T =>
               /\ Len(disconnections) = Cardinality(LongRuns(ping_data, T))
               /\ disconnections[last].end_time = ping_data[Len(ping_data)].timestamp
               /\ disconnections[last].count = RunLen(ping_data, a)
               /\ disconnections[last].start_time = ping_data[a].timestamp

\* [F,F,F] with T = 3 yields one disconnection with count 3
C4_Witness ==
    /\ Analyzed
    /\ T = 3
    /\ Len(ping_data) = 3
    /\ \A k \in 1..3 : IsFailure(ping_data, k)
    /\ Len(disconnections) = 1
    /\ disconnections[1].count = 3

\* C5: a run followed by a success is closed by that success: its end_time is
\* the timestamp of the first success after the run, it is appended when that
\* success is processed and the open run is cleared; every success resets the
\* failure counter to 0, whether or not a run was open.
C5_ClosedBySuccess ==
    /\ (pc = "loop" /\ i >= 1 /\ ~IsFailure(ping_data, i)) =>
           /\ failure_count = 0
           /\ current_disconnection = NoDisconnection
           /\ T >= 1 => Len(disconnections) = Cardinality(ClosedLongRuns(Processed, T))
    /\ ((pc = "loop" \/ Analyzed) /\ T >= 1) =>
           \A n \in 1..Cardinality(ClosedLongRuns(Processed, T)) :
               /\ n <= Len(disconnections)
               /\ disconnections[n].end_time =
                      Processed[RunEnd(Processed,
                                       Nth(ClosedLongRuns(Processed, T), n)) + 1].timestamp

\* the success just processed closed a run: it is the last of the list and ends
\* at that success
C5_Witness ==
    /\ pc = "loop"
    /\ i >= 2
    /\ ~IsFailure(ping_data, i)
    /\ IsFailure(ping_data, i - 1)
    /\ Len(disconnections) = 1
    /\ disconnections[1].end_time = ping_data[i].timestamp
    /\ disconnections[1].end_time # disconnections[1].start_time
    /\ failure_count = 0
    /\ current_disconnection = NoDisconnection

\* C6 as stated: when the timestamps are non-decreasing in input order, the
\* emitted disconnections do not overlap in time and each start_time is
\* strictly greater than the previous one's.
C6_StrictlyOrdered ==
    (Analyzed /\ Chronological(ping_data)) =>
        \A n \in 1..(Len(disconnections) - 1) :
            /\ disconnections[n].end_time <= disconnections[n + 1].start_time
            /\ disconnections[n].start_time < disconnections[n + 1].start_time

\* C6 amended: when the timestamps are non-decreasing in input order, each
\* disconnection starts no earlier than the previous one ends (so start times
\* are non-decreasing); when they are strictly increasing, each disconnection
\* starts strictly after the previous one ends.
C6_Ordered ==
    (Analyzed /\ Chronological(ping_data)) =>
        /\ \A n \in DOMAIN disconnections :
               disconnections[n].start_time <= disconnections[n].end_time
        /\ \A n \in 1..(Len(disconnections) - 1) :
               /\ disconnections[n].end_time <= disconnections[n + 1].start_time
               /\ StrictlyChronological(ping_data) =>
                      disconnections[n].end_time < disconnections[n + 1].start_time

\* two disconnections of a chronological stream that start in the same second
C6_Witness ==
    /\ Analyzed
    /\ Chronological(ping_data)
    /\ Len(disconnections) = 2
    /\ disconnections[1].start_time = disconnections[2].start_time

\* C7 as stated: every emitted disconnection has duration = end_time -
\* start_time and duration >= 0, for every event sequence the detector
\* accepts.
C7_DurationNonNegative ==
    \A n \in DOMAIN disconnections :
        /\ disconnections[n].duration =
               disconnections[n].end_time - disconnections[n].start_time
        /\ disconnections[n].duration >= 0

\* C7 amended: every emitted disconnection has duration = end_time -
\* start_time; the duration is >= 0 when the timestamps are non-decreasing in
\* input order.
C7_Duration ==
    \A n \in DOMAIN disconnections :
        /\ disconnections[n].duration =
               disconnections[n].end_time - disconnections[n].start_time
        /\ Chronological(ping_data) => disconnections[n].duration >= 0

\* a disconnection of a chronological stream that lasts some time
C7_Witness ==
    /\ Analyzed
    /\ Chronological(ping_data)
    /\ \E n \in DOMAIN disconnections : disconnections[n].duration > 0

\* C8: the hourly disconnection series has exactly one entry for every hour
\* from the minimum to the maximum event hour, at 1-hour steps, and each
\* entry carries a 'count' that is the number of disconnections that start
\* in that hour (0 where none does), also when no disconnection was detected.
C8_Densified ==
    Analyzed =>
        LET df == hourly_disconnection_df
            lo == Min({FloorHour(ping_data[k].timestamp) : k \in DOMAIN ping_data})
            hi == Max({FloorHour(ping_data[k].timestamp) : k \in DOMAIN ping_data})
        IN /\ Len(df.index) = (hi - lo) \div 3600 + 1
           /\ DOMAIN df.rows = DOMAIN df.index
           /\ \A k \in DOMAIN df.index :
                  /\ df.index[k] = lo + (k - 1) * 3600
                  /\ "count" \in DOMAIN df.rows[k]
                  /\ df.rows[k]["count"] =
                         Cardinality({n \in DOMAIN disconnections :
                             FloorHour(disconnections[n].start_time) = df.index[k]})

\* C9: the hourly statistics have an entry for hour h exactly when some parsed
\* event has hour bucket h, and each entry's packet_loss_count =
\* total_pings - successful_pings is the number of failure events of the hour.
C9_HourlyStats ==
    (pc = "loop" \/ Analyzed) =>
        /\ DOMAIN hourly_stats =
               {FloorHour(ping_data[k].timestamp) : k \in DOMAIN ping_data}
        /\ \A h \in DOMAIN hourly_stats :
               /\ hourly_stats[h].packet_loss_count =
                      hourly_stats[h].total_pings - hourly_stats[h].successful_pings
               /\ hourly_stats[h].packet_loss_count =
                      Cardinality({k \in DOMAIN ping_data :
                          /\ FloorHour(ping_data[k].timestamp) = h
                          /\ IsFailure(ping_data, k)})

\* events in two hours around an hour without events, and a counted failure
C9_Witness ==
    /\ Analyzed
    /\ Cardinality(DOMAIN hourly_stats) = 2
    /\ Max(DOMAIN hourly_stats) - Min(DOMAIN hourly_stats) > 3600
    /\ \E h \in DOMAIN hourly_stats :
           /\ hourly_stats[h].packet_loss_count > 0
           /\ hourly_stats[h].successful_pings > 0

SumLoss == SumFn([h \in DOMAIN hourly_stats |-> hourly_stats[h].packet_loss_count])
SumTotal == SumFn([h \in DOMAIN hourly_stats |-> hourly_stats[h].total_pings])
SumCounts == SumFn([n \in DOMAIN disconnections |-> disconnections[n].count])

\* C10: the hourly packet_loss_count values sum to at least the sum of the
\* emitted disconnections' counts, and the hourly total_pings values sum to
\* the number of parsed events.
C10_Conservation ==
    Analyzed =>
        /\ SumLoss >= SumCounts
        /\ SumTotal = Len(ping_data)

\* three events spread over two hourly buckets, the failures among them in an
\* emitted disconnection
C10_Witness ==
    /\ Analyzed
    /\ Cardinality(DOMAIN hourly_stats) >= 2
    /\ SumTotal = 3
    /\ SumCounts > 0
    /\ SumLoss >= SumCounts

\* ------------------------------------------------ claims about main and
\* ------------------------------------------------ the parser

\* read_ping_data has returned to main
ReadDone ==
    \/ pc \in {"abort_host", "abort_empty", "analyze", "loop", "report"}
    \/ pc = "done" /\ outcome \in {"missing_host", "empty_data", "completed"}
    \/ pc = "done" /\ called # {}

\* read_ping_data has just returned: main is at one of the tests of lines
\* 327-339
JustRead == pc \in {"abort_host", "abort_empty", "analyze"}

\* positions of the lines of f that carry a valid timestamp
DataLines(f) == {k \in DOMAIN f : f[k].kind \in {"reply", "reply_nolatency", "timeout"}}

\* C11: when the header has no host, or no line parses into an event, main
\* reports the error and returns without calling analyze_ping_data,
\* print_analysis_results or a plot function and with no result computed; the
\* missing-host test comes before the empty-data test.
C11_StreamAbort ==
    (ReadDone /\ (~first_line_has_host \/ ping_data = <<>>)) =>
        /\ called = {}
        /\ hourly_stats = <<>> /\ disconnections = <<>>
        /\ hourly_disconnection_df = EmptyFrame
        /\ pc \in {"abort_host", "abort_empty", "done"}
        /\ pc = "done" =>
               outcome = IF ~first_line_has_host THEN "missing_host" ELSE "empty_data"

\* main has returned on a file with neither a host nor a parsable line
C11_Witness ==
    /\ pc = "done"
    /\ ~first_line_has_host
    /\ file # <<>>
    /\ DataLines(file) = {}
    /\ outcome = "missing_host"
    /\ called = {}

\* C12: a line with the timestamp prefix that raises is reported and dropped,
\* every other qualifying line before and after it is parsed and appears in
\* input order, and a line without the prefix is skipped without a report.
C12_LineRecovery ==
    JustRead =>
        /\ Len(ping_data) = Cardinality(DataLines(file))
        /\ \A n \in DOMAIN ping_data :
               LET line == file[Nth(DataLines(file), n)]
               IN /\ ping_data[n].timestamp = line.ts
                  /\ ping_data[n].result = "failure" <=> line.kind = "timeout"
        /\ Range(parse_warnings) = {k \in DOMAIN file : file[k].kind = "bad"}
        /\ Len(parse_warnings) = Cardinality(Range(parse_warnings))

\* a line that raises and a line without the prefix, and a data line parsed
\* after them
C12_Witness ==
    /\ ReadDone
    /\ Len(file) = 3
    /\ file[1].kind = "bad" /\ file[2].kind = "noise" /\ file[3].kind = "reply"
    /\ Len(ping_data) = 1
    /\ ping_data[1].timestamp = file[3].ts
    /\ parse_warnings = <<1>>

\* C13: the overall loss rate is failures / events * 100 for a non-empty list
\* of events, and analyze_ping_data computes 0, without failing, for the
\* empty list.
C13_LossRate ==
    ("analyze_ping_data" \in called) =>
        /\ outcome # "exception"
        /\ overall_packet_loss_rate =
               IF ping_data = <<>> THEN [num |-> 0, den |-> 1]
               ELSE [num |-> 100 * Cardinality({k \in DOMAIN ping_data :
                                                    IsFailure(ping_data, k)}),
                     den |-> Len(ping_data)]

\* C14: the threshold main passes to the detector is a positive integer:
\* the number entered, or the default 3.
C14_PositiveThreshold ==
    ("analyze_ping_data" \in called) =>
        /\ disconnect_threshold >= 1
        /\ \/ disconnect_threshold = DefaultThreshold
           \/ custom_threshold.kind = "digits"
                  /\ disconnect_threshold = custom_threshold.value

\* C15: a timestamped line with "Reply from" and no 'time=<digits>ms' becomes a
\* success event whose response_time is None, not 0, and the detector treats
\* it as any success: the counter is reset and an open run is closed with
\* that event's timestamp.
C15_LatencyAbsentSuccess ==
    /\ JustRead =>
           \A n \in DOMAIN ping_data :
               n <= Cardinality(DataLines(file)) =>
                   (file[Nth(DataLines(file), n)].kind = "reply_nolatency" =>
                        /\ ping_data[n].result = "success"
                        /\ ping_data[n].response_time = None
                        /\ ping_data[n].response_time # 0)
    /\ (pc = "loop" /\ i >= 1 /\ ping_data[i].result = "success"
            /\ ping_data[i].response_time = None) =>
           /\ failure_count = 0
           /\ current_disconnection = NoDisconnection
           /\ T >= 1 =>
                  /\ Len(disconnections) = Cardinality(ClosedLongRuns(Processed, T))
                  /\ (i >= 2 /\ IsFailure(ping_data, i - 1)
                          /\ RunLen(Processed, Max(RunStarts(Processed))) >= T) =>
                         disconnections[Len(disconnections)].end_time =
                             ping_data[i].timestamp

\* a reply without latency has just closed an open run
C15_Witness ==
    /\ pc = "loop"
    /\ i >= 2
    /\ file[Nth(DataLines(file), i)].kind = "reply_nolatency"
    /\ ping_data[i].response_time = None
    /\ IsFailure(ping_data, i - 1)
    /\ Len(disconnections) = 1
    /\ disconnections[1].end_time = ping_data[i].timestamp
    /\ failure_count = 0

\* C16: the log file opened by save_output_to_log is closed on every exit
\* path of main.
C16_LogClosed ==
    pc = "done" => ~log_open

\* C17: for T >= 1, after each processed event a run is open exactly when the
\* failure counter is >= T, and the open run's count is the failure counter.
C17_DetectorState ==
    (pc = "loop" /\ T >= 1) =>
        /\ current_disconnection # NoDisconnection <=> failure_count >= T
        /\ current_disconnection # NoDisconnection =>
               current_disconnection[1].count = failure_count

\* a run is open and has grown past the threshold
C17_Witness ==
    /\ pc = "loop"
    /\ T >= 1
    /\ current_disconnection # NoDisconnection
    /\ failure_count > T
    /\ current_disconnection[1].count = failure_count

\* C18: when a disconnection is emitted, every disconnection's start hour lies
\* between the minimum and the maximum event hour and the counts of the
\* densified series sum to the number of disconnections.
C18_CountsSum ==
    (Analyzed /\ disconnections # <<>>) =>
        LET df == hourly_disconnection_df
        IN /\ \A n \in DOMAIN disconnections :
                  /\ FloorHour(disconnections[n].start_time) >= Min(GroupKeys(ping_data))
                  /\ FloorHour(disconnections[n].start_time) <= Max(GroupKeys(ping_data))
           /\ \A k \in DOMAIN df.rows : "count" \in DOMAIN df.rows[k]
           /\ SumFn([k \in DOMAIN df.rows |-> df.rows[k]["count"]]) = Len(disconnections)

\* two disconnections that start in different hours with a gap hour between
C18_Witness ==
    /\ Analyzed
    /\ Len(disconnections) = 2
    /\ Len(hourly_disconnection_df.index) = 3
    /\ FloorHour(disconnections[1].start_time) # FloorHour(disconnections[2].start_time)

====
